---- MODULE Spec2Model ----
(***************************************************************************)
(* State-machine model of src/src/index.ts: main() connects a MongoClient, *)
(* runs one of three monitor functions over a change stream of the         *)
(* listingsAndReviews collection for a fixed duration, and closes the      *)
(* client in a finally block.                                              *)
(*                                                                         *)
(* JavaScript runs each callback to completion, and the continuation of a  *)
(* settled await runs before any timer callback.  One action is therefore  *)
(* one turn of the event loop: it starts where a promise settles or a      *)
(* callback is invoked and runs to the next await whose promise is still   *)
(* pending.                                                                *)
(*                                                                         *)
(* The MongoDB driver is not part of the repository.  It is modelled by    *)
(* the contract the script relies on: the server applies the pipeline, an  *)
(* open stream hands over the matching events in feed order, a closed      *)
(* stream hands over nothing (a pending hasNext() yields false or rejects, *)
(* a pending next() rejects), and a feed failure rejects the pending call  *)
(* of the pull loop and is an 'error' event of the stream for the other    *)
(* two monitors.  They register no 'error' listener, so Node throws        *)
(* "Unhandled 'error' event" and the process ends there.                   *)
(***************************************************************************)
EXTENDS Naturals, Sequences, FiniteSets

\* Longest feed (number of change events the collection produces in a run).
MaxFeed == 3

VARIABLES
    option,     \* which call of main() is commented in (lines 27, 28, 31, 34)
    feed,       \* the change events of the collection, in server order
    mainPc,     \* position of main(); "crashed" once the process has died
    monPc,      \* position of the monitor function
    client,     \* state of the MongoClient
    stream,     \* state of the ChangeStream
    timer,      \* state of the setTimeout of closeChangeStream
    feedState,  \* "live" or "failed"
    sent,       \* index of the last feed event the cursor has taken
    buffered,   \* event fetched by hasNext() and held for next()
    handed,     \* indexes of the events handed to the script's code
    trace,      \* calls and console.log lines, in order
    error,      \* the error main() is about to reject with
    reported,   \* values passed to console.error
    closeAt,    \* position of the monitor when the timer closed the stream
    failedAt    \* number of events handed over when the feed failed

vars == <<option, feed, mainPc, monPc, client, stream, timer, feedState, sent,
          buffered, handed, trace, error, reported, closeAt, failedAt>>

-----------------------------------------------------------------------------
\* The calls main() offers; line 27 is the one the file has commented in.
Options == {"L27", "L28", "L31", "L34"}

Variant(o) ==
    CASE o = "L27" -> "EventEmitter"
      [] o = "L28" -> "EventEmitter"
      [] o = "L31" -> "HasNext"
      [] o = "L34" -> "StreamAPI"

\* const pipeline = [{ $match: {...} }] of main().
MainPipeline ==
    << [match |-> { [field |-> "operationType", value |-> "insert"],
                    [field |-> "country",       value |-> "Australia"],
                    [field |-> "market",        value |-> "Sydney"] }] >>

\* Default value of the monitor functions' pipeline parameter.
DefaultPipeline == << >>

\* The pipeline argument the chosen call passes to the monitor function.
PipelineArg(o) == IF o = "L27" THEN DefaultPipeline ELSE MainPipeline

\* Change documents the collection can produce.
DocKinds ==
    { [operationType |-> "insert", country |-> "Australia", market |-> "Sydney"],
      [operationType |-> "update", country |-> "Australia", market |-> "Sydney"],
      [operationType |-> "insert", country |-> "Australia", market |-> "Melbourne"],
      [operationType |-> "insert", country |-> "Portugal",  market |-> "Porto"] }

\* A $match stage is a conjunction of field = value; stages are applied in turn.
Matches(ev, pipeline) ==
    \A i \in 1..Len(pipeline) :
        \A c \in pipeline[i].match : ev[c.field] = c.value

\* Index of the first matching event after position s, 0 when there is none.
NextMatch(fd, s, pipeline) ==
    IF \E j \in (s+1)..Len(fd) : Matches(fd[j], pipeline)
    THEN CHOOSE j \in (s+1)..Len(fd) :
            /\ Matches(fd[j], pipeline)
            /\ \A k \in (s+1)..(j-1) : ~Matches(fd[k], pipeline)
    ELSE 0

Entry(op, arg) == [op |-> op, arg |-> arg]

\* A handler that forgets to log the event.
LogEventDrop(tr, j) == tr

\* console.log(next) / console.log(doc): one line per event handed over.
LogEvent(tr, j) == Append(tr, Entry("print", j))

\* A catch block that rethrows whatever it caught.
CatchAlwaysRethrows(isClosed) == TRUE

\* A catch block that swallows whatever it caught.
CatchNeverRethrows(isClosed) == FALSE

\* The catch block of monitorListingsUsingHasNext: TRUE when it rethrows.
CatchRethrows(isClosed) == ~isClosed

\* close() of the stream or of the client, called in state `own` while the
\* other of the two is in state `peer`: 1 when the call raises, 0 when not.
\* close() is idempotent and safe to call from any state.
CloseRaises(own, peer) == 0

\* Trace of main()'s finally block: client.close() is called, the change
\* stream being in state st.
Finally(tr, st) == Append(tr, Entry("clientClose", CloseRaises(client, st)))

-----------------------------------------------------------------------------
Init ==
    /\ option \in Options
    /\ \E n \in 0..MaxFeed : \E f \in [1..n -> DocKinds] : feed = [i \in 1..n |-> f[i]]
    /\ mainPc = "idle"
    /\ monPc = "none"
    /\ client = "new"
    /\ stream = "none"
    /\ timer = "unset"
    /\ feedState = "live"
    /\ sent = 0
    /\ buffered = << >>
    /\ handed = << >>
    /\ trace = << >>
    /\ error = "none"
    /\ reported = << >>
    /\ closeAt = "none"
    /\ failedAt = 0

\* main() up to `await client.connect()`.
MainStart ==
    /\ mainPc = "idle"
    /\ mainPc' = "connecting"
    /\ client' = "connecting"
    /\ trace' = Append(trace, Entry("connect", 0))
    /\ UNCHANGED <<option, feed, monPc, stream, timer, feedState, sent, buffered,
                   handed, error, reported, closeAt, failedAt>>

\* connect() resolves: the log line, then the monitor function up to its first
\* pending await (watch, the listener or pipe, the timer of closeChangeStream).
ConnectOk ==
    /\ mainPc = "connecting"
    /\ mainPc' = "monitor"
    /\ client' = "connected"
    /\ stream' = "open"
    /\ timer' = "pending"
    /\ trace' = trace \o << Entry("connected", 0), Entry("watch", 0) >>
    /\ monPc' = IF Variant(option) = "HasNext" THEN "awaitHasNext" ELSE "awaitTimer"
    /\ UNCHANGED <<option, feed, feedState, sent, buffered, handed, error,
                   reported, closeAt, failedAt>>

\* connect() rejects and main() has no finally block: the client is left open.
ConnectFailNoFinally ==
    /\ mainPc = "connecting"
    /\ mainPc' = "rejected"
    /\ error' = "E_connect"
    /\ reported' = Append(reported, "E_connect")
    /\ UNCHANGED <<option, feed, monPc, client, stream, timer, feedState, sent,
                   buffered, handed, trace, closeAt, failedAt>>

\* connect() rejects: the finally block calls client.close().
ConnectFail ==
    /\ mainPc = "connecting"
    /\ mainPc' = "closingClient"
    /\ client' = "closing"
    /\ error' = "E_connect"
    /\ trace' = Finally(trace, stream)
    /\ UNCHANGED <<option, feed, monPc, stream, timer, feedState, sent, buffered,
                   handed, reported, closeAt, failedAt>>

\* changeStream.on('change', (next) => console.log(next)).
ChangeListener ==
    /\ Variant(option) = "EventEmitter"
    /\ monPc = "awaitTimer"
    /\ stream = "open"
    /\ feedState = "live"
    /\ LET j == NextMatch(feed, sent, PipelineArg(option)) IN
        /\ j # 0
        /\ sent' = j
        /\ handed' = Append(handed, j)
        /\ trace' = LogEvent(trace, j)
    /\ UNCHANGED <<option, feed, mainPc, monPc, client, stream, timer, feedState,
                   buffered, error, reported, closeAt, failedAt>>

\* write(doc, _, cb) of the Writable the stream is piped into.
WritableWrite ==
    /\ Variant(option) = "StreamAPI"
    /\ monPc = "awaitTimer"
    /\ stream = "open"
    /\ feedState = "live"
    /\ LET j == NextMatch(feed, sent, PipelineArg(option)) IN
        /\ j # 0
        /\ sent' = j
        /\ handed' = Append(handed, j)
        /\ trace' = LogEvent(trace, j)
    /\ UNCHANGED <<option, feed, mainPc, monPc, client, stream, timer, feedState,
                   buffered, error, reported, closeAt, failedAt>>

\* A loop body that calls next() without awaiting it and goes straight back to
\* hasNext(): the next delivery starts while the previous one is unfinished.
HasNextTrueNoAwait ==
    /\ monPc = "awaitHasNext"
    /\ stream = "open"
    /\ feedState = "live"
    /\ LET j == NextMatch(feed, sent, PipelineArg(option)) IN
        /\ j # 0
        /\ sent' = j
        /\ buffered' = Append(buffered, j)
    /\ UNCHANGED <<option, feed, mainPc, monPc, client, stream, timer, feedState,
                   handed, trace, error, reported, closeAt, failedAt>>

\* hasNext() resolves true; the loop body calls next().
HasNextTrue ==
    /\ monPc = "awaitHasNext"
    /\ stream = "open"
    /\ feedState = "live"
    /\ LET j == NextMatch(feed, sent, PipelineArg(option)) IN
        /\ j # 0
        /\ sent' = j
        /\ buffered' = << j >>
    /\ monPc' = "awaitNext"
    /\ UNCHANGED <<option, feed, mainPc, client, stream, timer, feedState, handed,
                   trace, error, reported, closeAt, failedAt>>

\* A loop body that logs the event and calls next() again without hasNext(),
\* the cursor still holding the event.
NextOkAgain ==
    /\ monPc = "awaitNext"
    /\ stream = "open"
    /\ feedState = "live"
    /\ buffered # << >>
    /\ Len(handed) < 2 * MaxFeed
    /\ handed' = Append(handed, buffered[1])
    /\ trace' = LogEvent(trace, buffered[1])
    /\ UNCHANGED <<option, feed, mainPc, monPc, client, stream, timer, feedState,
                   sent, buffered, error, reported, closeAt, failedAt>>

\* next() resolves with the event: console.log, then hasNext() is called again.
NextOk ==
    /\ monPc = "awaitNext"
    /\ stream = "open"
    /\ feedState = "live"
    /\ buffered # << >>
    /\ handed' = Append(handed, buffered[1])
    /\ trace' = LogEvent(trace, buffered[1])
    /\ buffered' = << >>
    /\ monPc' = "awaitHasNext"
    /\ UNCHANGED <<option, feed, mainPc, client, stream, timer, feedState, sent,
                   error, reported, closeAt, failedAt>>

\* A timer callback that resolves without closing the change stream.
TimerFiresNoClose ==
    /\ timer = "pending"
    /\ mainPc # "crashed"
    /\ timer' = "fired"
    /\ closeAt' = monPc
    /\ IF monPc = "awaitTimer"
       THEN /\ monPc' = "returned"
            /\ mainPc' = "closingClient"
            /\ client' = "closing"
            /\ trace' = Finally(Append(trace, Entry("closingLog", 0)), stream)
       ELSE /\ trace' = Append(trace, Entry("closingLog", 0))
            /\ UNCHANGED <<monPc, mainPc, client>>
    /\ UNCHANGED <<option, feed, stream, feedState, sent, buffered, handed, error,
                   reported, failedAt>>

\* The setTimeout callback of closeChangeStream: log, changeStream.close(),
\* resolve().  A monitor awaiting the promise returns and main() enters finally.
\* A timer of a process that has died never fires.
TimerFires ==
    /\ timer = "pending"
    /\ mainPc # "crashed"
    /\ timer' = "fired"
    /\ stream' = "closed"
    /\ closeAt' = monPc
    /\ IF monPc = "awaitTimer"
       THEN /\ monPc' = "returned"
            /\ mainPc' = "closingClient"
            /\ client' = "closing"
            /\ trace' = Finally(trace \o << Entry("closingLog", 0),
                                             Entry("streamClose", CloseRaises(stream, client)) >>,
                                 "closed")
       ELSE /\ trace' = trace \o << Entry("closingLog", 0),
                                     Entry("streamClose", CloseRaises(stream, client)) >>
            /\ UNCHANGED <<monPc, mainPc, client>>
    /\ UNCHANGED <<option, feed, feedState, sent, buffered, handed, error,
                   reported, failedAt>>

\* hasNext() of a closed stream yields false: the loop ends, the monitor returns.
HasNextFalse ==
    /\ monPc = "awaitHasNext"
    /\ stream = "closed"
    /\ monPc' = "returned"
    /\ mainPc' = "closingClient"
    /\ client' = "closing"
    /\ trace' = Finally(trace, stream)
    /\ UNCHANGED <<option, feed, stream, timer, feedState, sent, buffered, handed,
                   error, reported, closeAt, failedAt>>

\* The pending hasNext() or next() of a closed stream rejects: the catch block.
RejectClosed ==
    /\ monPc \in {"awaitHasNext", "awaitNext"}
    /\ stream = "closed"
    /\ buffered' = << >>
    /\ mainPc' = "closingClient"
    /\ client' = "closing"
    /\ IF CatchRethrows(stream = "closed")
       THEN /\ monPc' = "threw"
            /\ error' = "E_closed"
            /\ trace' = Finally(trace, stream)
       ELSE /\ monPc' = "returned"
            /\ error' = error
            /\ trace' = Finally(Append(trace, Entry("closedMsg", 0)), stream)
    /\ UNCHANGED <<option, feed, stream, timer, feedState, sent, handed, reported,
                   closeAt, failedAt>>

\* A pull loop that answers a feed error by calling watch() again.
FeedErrorRewatch ==
    /\ mainPc = "monitor"
    /\ stream = "open"
    /\ feedState = "live"
    /\ Variant(option) = "HasNext"
    /\ Len(trace) < 3 * MaxFeed + 8
    /\ failedAt' = Len(handed)
    /\ buffered' = << >>
    /\ monPc' = "awaitHasNext"
    /\ trace' = Append(trace, Entry("watch", 0))
    /\ UNCHANGED <<option, feed, mainPc, client, stream, timer, feedState, sent,
                   handed, error, reported, closeAt>>

\* The feed fails while the stream is open.  The pull loop's pending call
\* rejects and its catch block runs.  The other two monitors registered a
\* 'change' listener or a pipe and no 'error' listener: the 'error' event is
\* unhandled and the process dies with the timer pending, the stream and the
\* client open and main() unsettled.
FeedError ==
    /\ mainPc = "monitor"
    /\ stream = "open"
    /\ feedState = "live"
    /\ feedState' = "failed"
    /\ failedAt' = Len(handed)
    /\ IF Variant(option) = "HasNext"
       THEN /\ buffered' = << >>
            /\ mainPc' = "closingClient"
            /\ client' = "closing"
            /\ IF CatchRethrows(stream = "closed")
               THEN /\ monPc' = "threw"
                    /\ error' = "E_feed"
                    /\ trace' = Finally(trace, stream)
               ELSE /\ monPc' = "returned"
                    /\ error' = error
                    /\ trace' = Finally(Append(trace, Entry("closedMsg", 0)), stream)
       ELSE /\ mainPc' = "crashed"
            /\ UNCHANGED <<buffered, client, monPc, error, trace>>
    /\ UNCHANGED <<option, feed, stream, timer, sent, handed, reported, closeAt>>

\* `await client.close()` settles: main() settles; a rejection goes to
\* console.error.  An error raised by client.close() inside the finally block
\* replaces the error main() was about to reject with.
ClientCloseDone ==
    /\ mainPc = "closingClient"
    /\ client' = "closed"
    /\ LET raised == \E i \in 1..Len(trace) :
                        trace[i].op = "clientClose" /\ trace[i].arg # 0
           outcome == IF raised THEN "E_close" ELSE error
       IN  /\ error' = outcome
           /\ IF outcome = "none"
              THEN /\ mainPc' = "resolved"
                   /\ reported' = reported
              ELSE /\ mainPc' = "rejected"
                   /\ reported' = Append(reported, outcome)
    /\ UNCHANGED <<option, feed, monPc, stream, timer, feedState, sent, buffered,
                   handed, trace, closeAt, failedAt>>

Next ==
    \/ MainStart
    \/ ConnectOk
    \/ ConnectFail
    \/ ChangeListener
    \/ WritableWrite
    \/ HasNextTrue
    \/ NextOk
    \/ TimerFires
    \/ HasNextFalse
    \/ RejectClosed
    \/ FeedError
    \/ ClientCloseDone

Spec == Init /\ [][Next]_vars

\* The event loop runs every callback that is due: the script starts, connect()
\* and client.close() settle, the timer of a live process fires, and the driver settles a call
\* left pending on a closed stream.  The feed owes nothing: no fairness on the
\* arrival of events or on feed errors.
SpecFair ==
    /\ Spec
    /\ WF_vars(MainStart)
    /\ WF_vars(ConnectOk \/ ConnectFail)
    /\ WF_vars(TimerFires)
    /\ WF_vars(HasNextFalse \/ RejectClosed)
    /\ WF_vars(ClientCloseDone)

-----------------------------------------------------------------------------
\* Observations on the trace.
Settled == mainPc \in {"resolved", "rejected"}

At(op) == { i \in 1..Len(trace) : trace[i].op = op }

Count(op) == Cardinality(At(op))

PrintLines == SelectSeq(trace, LAMBDA e : e.op = "print")

\* Feed indexes of the printed events, in print order.
PrintedIdx == [i \in 1..Len(PrintLines) |-> PrintLines[i].arg]

\* The printed documents, in print order.
PrintedDocs == [i \in 1..Len(PrintedIdx) |-> feed[PrintedIdx[i]]]

\* The documents of a feed that pass a pipeline, in feed order.
Filtered(fd, pipeline) == SelectSeq(fd, LAMBDA ev : Matches(ev, pipeline))

\* Number of matching events the cursor has taken from the feed.
Taken == Len(Filtered(SubSeq(feed, 1, sent), PipelineArg(option)))

\* Rank of a trace line in the lifecycle connect, subscribe, print, close the
\* stream, close the client.
Phase(op) ==
    CASE op \in {"connect", "connected"} -> 1
      [] op = "watch" -> 2
      [] op = "print" -> 3
      [] op \in {"closingLog", "streamClose"} -> 4
      [] op = "closedMsg" -> 4
      [] op = "clientClose" -> 5

-----------------------------------------------------------------------------
\* C1: in a run of main() with a monitor that awaits the timer (the call the
\* file makes), the trace is connect, the connected line, one watch, zero or
\* more event lines, the timer's log line and changeStream.close(), then
\* client.close(), in this order; nothing is printed before the subscription.
C1_LifecycleOrder ==
    Variant(option) # "HasNext" =>
        /\ \A i, j \in 1..Len(trace) :
              i < j => Phase(trace[i].op) <= Phase(trace[j].op)
        /\ \A op \in {"connect", "connected", "watch", "closingLog",
                      "streamClose", "clientClose"} : Count(op) <= 1
        /\ Count("print") > 0 => Count("watch") = 1
        /\ Count("watch") = 1 => Count("connected") = 1
        /\ (Count("clientClose") = 1 /\ Count("watch") = 1)
              => (Count("closingLog") = 1 /\ Count("streamClose") = 1)
        /\ mainPc \in {"monitor", "crashed"}
              <=> (Count("watch") = 1 /\ Count("streamClose") = 0)
        /\ mainPc = "resolved" => (Count("streamClose") = 1 /\ client = "closed")

C1_Witness ==
    /\ option = "L27"
    /\ mainPc = "resolved"
    /\ Count("print") = 2
    /\ Count("streamClose") = 1

\* C2: on every exit path of main() client.close() has been called exactly once
\* when main() settles, and it is never called twice.
C2_ClientClosedOnEveryExit ==
    /\ Count("clientClose") <= 1
    /\ Settled => (Count("clientClose") = 1 /\ client = "closed")
    /\ mainPc = "closingClient" => Count("clientClose") = 1

C2_Witness ==
    /\ mainPc = "rejected"
    /\ error = "E_feed"
    /\ Count("clientClose") = 1

\* C3: the handler prints exactly the events handed over, each once and in the
\* order of the feed, in all three variants.
C3_ExactlyOnceInOrder ==
    /\ PrintedIdx = handed
    /\ \A i, j \in 1..Len(PrintedIdx) : i < j => PrintedIdx[i] < PrintedIdx[j]
    /\ \A i \in 1..Len(handed) : Matches(feed[handed[i]], PipelineArg(option))

C3_Witness ==
    /\ Variant(option) = "HasNext"
    /\ Len(handed) = 3
    /\ PrintedIdx = handed
    /\ feedState = "live"

\* C4: when the timer closes the stream while the pull loop awaits hasNext(),
\* the monitor returns normally and no error reaches main().
C4_CloseWhileWaitingReturns ==
    closeAt = "awaitHasNext" =>
        /\ monPc \in {"awaitHasNext", "returned"}
        /\ error = "none"
        /\ mainPc # "rejected"
        /\ reported = << >>

C4_Witness ==
    /\ closeAt = "awaitHasNext"
    /\ mainPc = "resolved"
    /\ Count("closedMsg") = 1

RunOver == mainPc = "crashed" \/ (Settled /\ timer # "pending")

\* C6: the three monitors are equivalent on the same feed, pipeline, duration
\* and interleaving.  The listener prints an event in the turn it arrives, so
\* equivalence requires of every variant given the pipeline of main(): when
\* the run is over the change stream is closed and the printed documents are
\* the matching documents the cursor took before the close.
C6_VariantsEquivalent ==
    (RunOver /\ option # "L27" /\ Count("watch") = 1) =>
        /\ stream = "closed"
        /\ PrintedDocs = SubSeq(Filtered(feed, PipelineArg(option)), 1, Taken)

\* C7: every event passed to the handler satisfies the filter built in main().
C7_PrintedMatchMainFilter ==
    \A i \in 1..Len(PrintedDocs) : Matches(PrintedDocs[i], MainPipeline)

\* C8: an error raised by hasNext() or next() while the stream is not closed is
\* rethrown, main() rejects with it after client.close() has run, it is
\* reported once, and an error is swallowed only when the stream is closed.
C8_FailurePropagates ==
    /\ (Variant(option) = "HasNext" /\ feedState = "failed") =>
          /\ monPc = "threw"
          /\ error = "E_feed"
          /\ Count("closedMsg") = 0
          /\ Settled => (mainPc = "rejected" /\ reported = << "E_feed" >>)
    /\ mainPc = "rejected" =>
          /\ reported = << error >>
          /\ Count("clientClose") = 1
          /\ client = "closed"
    /\ Len(reported) <= 1
    /\ Count("closedMsg") > 0 => stream = "closed"

C8_Witness ==
    /\ mainPc = "rejected"
    /\ reported = << "E_feed" >>
    /\ Len(handed) >= 1

\* C9: watch() is called at most once per run, never again after a feed error,
\* so at most one subscription is ever open.
C9_SingleSubscription ==
    /\ Count("watch") <= 1
    /\ stream # "none" <=> Count("watch") = 1
    /\ stream = "open" => Count("streamClose") = 0

C9_Witness ==
    /\ feedState = "failed"
    /\ Settled
    /\ timer = "fired"
    /\ Count("watch") = 1

\* C10: after the feed fails behind event k of n (k < n) the consumer still
\* receives events k+1..n: a finished run has printed every matching event.
C10_ResumesAfterFailure ==
    ( /\ feedState = "failed"
      /\ failedAt >= 1
      /\ failedAt < Len(Filtered(feed, PipelineArg(option)))
      /\ Settled
      /\ timer = "fired" ) =>
        PrintedDocs = Filtered(feed, PipelineArg(option))

\* C11: deliveries of one subscription never overlap: at most one event is in
\* delivery, hasNext() is pending only when every event taken so far has been
\* printed, next() is pending for exactly the event hasNext() announced, and
\* the listener and write() finish each event before the next is taken.
C11_NoOverlappingDelivery ==
    /\ Len(buffered) <= 1
    /\ monPc = "awaitHasNext" => (buffered = << >> /\ Taken = Len(PrintedIdx))
    /\ monPc = "awaitNext" =>
          /\ buffered = << sent >>
          /\ Taken = Len(PrintedIdx) + 1
          /\ \A i \in 1..Len(PrintedIdx) : PrintedIdx[i] < sent
    /\ monPc = "awaitTimer" => (buffered = << >> /\ Taken = Len(PrintedIdx))

C11_Witness ==
    /\ Variant(option) = "HasNext"
    /\ monPc = "awaitNext"
    /\ Len(PrintedIdx) = 2
    /\ buffered = << 3 >>

\* C12: every run terminates: once the monitor function runs, in each variant
\* and on a silent feed too, the timer eventually fires, the change stream is
\* closed, the monitor function has ended (by returning, unless the feed
\* failed), client.close() has been called and main() has settled.
C12_EveryRunTerminates ==
    (mainPc = "monitor") ~>
        ( /\ timer = "fired"
          /\ stream = "closed"
          /\ monPc \in {"returned", "threw"}
          /\ (feedState = "live" => monPc = "returned")
          /\ Count("clientClose") = 1
          /\ Settled )

\* C13: changeStream.close() is invoked before client.close(): a monitor
\* function never ends while its timer is pending, and the timer callback never
\* runs against a client that the finally block has closed.
C13_StreamClosedBeforeClient ==
    /\ \A i \in At("clientClose") :
          Count("watch") = 1 => \E j \in At("streamClose") : j < i
    /\ monPc \in {"returned", "threw"} => timer # "pending"
    /\ timer = "pending" => client = "connected"

\* C14: no event is printed after the timer callback has logged 'Closing the
\* change stream' and closed the stream, in any variant and for any late event.
C14_NoPrintAfterClose ==
    /\ \A i \in At("closingLog") : \A j \in At("print") : j < i
    /\ \A i \in At("streamClose") : \A j \in At("print") : j < i
    /\ stream = "closed" => Len(PrintedIdx) = Len(handed)

\* A late event: hasNext() had announced it when the timer closed the stream.
C14_Witness ==
    /\ closeAt = "awaitNext"
    /\ Count("print") >= 1
    /\ Taken = Len(PrintedIdx) + 1
    /\ Settled

====
